---- MODULE Spec2Model ----
(***************************************************************************)
(* H2OAutoMLBaseMixin.get_best_model (h2o-py/h2o/automl/_base.py).         *)
(*                                                                         *)
(* The client picks, from the leaderboard of an AutoML run that lives on   *)
(* a remote backend, the best model of a family by a criterion.  Strings   *)
(* are sequences of one-character strings, so that str.lower() and the     *)
(* prefix patterns are computed and not assumed.  A frame is a record      *)
(* [columns, rows]; a row is a tuple aligned with the columns.             *)
(***************************************************************************)
EXTENDS Integers, Sequences, FiniteSets, TLC

\* ---------------------------------------------------------------- bounds
MaxRows == 3

\* --------------------------------------------------------------- strings
str_model_id == <<"m","o","d","e","l","_","i","d">>
str_auc == <<"a","u","c">>
str_aucpr == <<"a","u","c","p","r">>
str_AUC == <<"A","U","C">>
str_mse == <<"m","s","e">>
str_rmse == <<"r","m","s","e">>
str_mean_residual_deviance == <<"m","e","a","n","_","r","e","s","i","d","u","a","l","_","d","e","v","i","a","n","c","e">>
str_mean_per_class_error == <<"m","e","a","n","_","p","e","r","_","c","l","a","s","s","_","e","r","r","o","r">>
str_base_model == <<"b","a","s","e","_","m","o","d","e","l">>
str_deep_learning == <<"d","e","e","p","_","l","e","a","r","n","i","n","g">>
str_drf == <<"d","r","f">>
str_gbm == <<"g","b","m">>
str_GBM == <<"G","B","M">>
str_glm == <<"g","l","m">>
str_stacked_ensemble == <<"s","t","a","c","k","e","d","_","e","n","s","e","m","b","l","e">>
str_xgboost == <<"x","g","b","o","o","s","t">>
str_xrt == <<"x","r","t">>
str_svm == <<"s","v","m">>
pre_StackedEnsemble == <<"S","t","a","c","k","e","d","E","n","s","e","m","b","l","e","_">>
pre_DeepLearning == <<"D","e","e","p","L","e","a","r","n","i","n","g","_">>
pre_DRF == <<"D","R","F","_">>
pre_XRT == <<"X","R","T","_">>
pre_GBM == <<"G","B","M","_">>
pre_GLM == <<"G","L","M","_">>
pre_XGBoost == <<"X","G","B","o","o","s","t","_">>
id_GBM_1 == <<"G","B","M","_","1">>
id_DRF_1 == <<"D","R","F","_","1">>
id_XRT_1 == <<"X","R","T","_","1">>
id_StackedEnsemble_1 == <<"S","t","a","c","k","e","d","E","n","s","e","m","b","l","e","_","1">>

\* criterion=None: a value no string (sequence of characters) equals
None == <<"None">>

UpperCase == <<"A","B","C","D","E","F","G","H","I","J","K","L","M","N","O","P","Q","R","S","T","U","V","W","X","Y","Z">>
LowerCase == <<"a","b","c","d","e","f","g","h","i","j","k","l","m","n","o","p","q","r","s","t","u","v","w","x","y","z">>

\* str.lower() of one character: the 26 letters, every other character as it is
lower_table == [c \in {UpperCase[i] : i \in 1..Len(UpperCase)} |->
                  LowerCase[CHOOSE i \in 1..Len(UpperCase) : UpperCase[i] = c]]

LowerChar(c) == IF c \in DOMAIN lower_table THEN lower_table[c] ELSE c

\* str.lower()
Lower(s) == [i \in 1..Len(s) |-> LowerChar(s[i])]

\* a regular expression "^p" finds a match in s exactly when p is a prefix of s
IsPrefix(p, s) == Len(p) <= Len(s) /\ \A i \in 1..Len(p) : s[i] = p[i]

\* ------------------------------------------------------------ the tables
\* patterns: "^(?!p)" is [negate |-> TRUE], "^(p|q)_" is two prefixes
patterns ==
    (str_base_model :> [negate |-> TRUE, prefixes |-> {pre_StackedEnsemble}]) @@
    (str_deep_learning :> [negate |-> FALSE, prefixes |-> {pre_DeepLearning}]) @@
    (str_drf :> [negate |-> FALSE, prefixes |-> {pre_DRF, pre_XRT}]) @@
    (str_gbm :> [negate |-> FALSE, prefixes |-> {pre_GBM}]) @@
    (str_glm :> [negate |-> FALSE, prefixes |-> {pre_GLM}]) @@
    (str_stacked_ensemble :> [negate |-> FALSE, prefixes |-> {pre_StackedEnsemble}]) @@
    (str_xgboost :> [negate |-> FALSE, prefixes |-> {pre_XGBoost}]) @@
    (str_xrt :> [negate |-> FALSE, prefixes |-> {pre_XRT}])

higher_is_better == {str_auc, str_aucpr}

\* does the pattern find a match in the string s
Matches(pattern, s) ==
    LET hit == \E p \in pattern.prefixes : IsPrefix(p, s)
    IN  IF pattern.negate THEN ~hit ELSE hit

\* lines 167-174 with the last branch lost: every category but Regression gets auc
DefaultCriterionAllAuc(model_category) ==
    IF model_category = "Regression" THEN str_mean_residual_deviance
    ELSE str_auc

\* lines 167-174: the default criterion of a model category
DefaultCriterion(model_category) ==
    IF model_category = "Regression" THEN str_mean_residual_deviance
    ELSE IF model_category = "Binomial" THEN str_auc
    ELSE str_mean_per_class_error

\* {col.lower(): col for col in columns}: a later column replaces an earlier
\* one with the same lowercase name
Criteria(columns) ==
    LET keys == {Lower(columns[i]) : i \in 1..Len(columns)}
        last(k) == CHOOSE i \in 1..Len(columns) :
                      /\ Lower(columns[i]) = k
                      /\ \A j \in 1..Len(columns) : Lower(columns[j]) = k => j <= i
    IN  [k \in keys |-> columns[last(k)]]

\* line 178 with the documented metrics accepted whether or not the leaderboard has them
CriterionPresentAmongMetrics(criterion, criteria) ==
    Lower(criterion) \in (DOMAIN criteria) \cup {str_auc, str_aucpr, str_mse, str_rmse}

\* line 178: criterion.lower() in criteria.keys()
CriterionPresent(criterion, criteria) == Lower(criterion) \in DOMAIN criteria

\* line 184 without the lower()
FamilyKnownCaseSensitive(algorithm) == algorithm \in DOMAIN patterns

\* line 184: algorithm.lower() in patterns.keys()
FamilyKnown(algorithm) == Lower(algorithm) \in DOMAIN patterns

\* ascending=criterion.lower() not in higher_is_better
Ascending(criterion) == Lower(criterion) \notin higher_is_better

\* ------------------------------------------------------------ the frames
ColIndex(columns, name) == CHOOSE i \in 1..Len(columns) : columns[i] = name

\* frame[name]: one column, top to bottom
Column(frame, name) ==
    [r \in 1..Len(frame.rows) |-> frame.rows[r][ColIndex(frame.columns, name)]]

\* frame.sort(by, ascending): a stable sort, ties keep the order of the rows
Sort(frame, by, ascending) ==
    LET key == Column(frame, by)
        n == Len(frame.rows)
        before(j, i) ==
            \/ (IF ascending THEN key[j] < key[i] ELSE key[j] > key[i])
            \/ (key[j] = key[i] /\ j < i)
        rank(i) == 1 + Cardinality({j \in 1..n : before(j, i)})
    IN  [columns |-> frame.columns,
         rows |-> [k \in 1..n |-> frame.rows[CHOOSE i \in 1..n : rank(i) = k]]]

\* column.grep(pattern): the 0-based positions, in the column, of the matches
Grep(column, pattern) ==
    LET positions == [i \in 1..Len(column) |-> i - 1]
        test(p) == Matches(pattern, column[p + 1])
    IN  SelectSeq(positions, test)

\* frame[row, name] with a 0-based row
Cell(frame, row, name) == frame.rows[row + 1][ColIndex(frame.columns, name)]

\* --------------------------------------------------------- the outcomes
Model(model_id) == [kind |-> "model", about |-> "", arg |-> model_id]
NoModel == [kind |-> "None", about |-> "", arg |-> <<>>]
H2OValueError(about, value) == [kind |-> "H2OValueError", about |-> about, arg |-> value]
KeyError(key) == [kind |-> "KeyError", about |-> "", arg |-> key]
Running == [kind |-> "running", about |-> "", arg |-> <<>>]


\* ------------------------------------------- validation (lines 176-189)
\* The checks between the read of the columns and the call of _best, in the
\* order of the code: the outcome that ends the call, or Running with the
\* criterion resolved to the column's own name.
Validate(columns, algorithm_, criterion_) ==
    LET criteria == Criteria(columns)
    IN  IF ~CriterionPresent(criterion_, criteria)
        THEN [result |-> H2OValueError("Criterion", criterion_),
              criterion |-> criterion_, events |-> <<>>]
        ELSE IF criterion_ \notin DOMAIN criteria
        THEN [result |-> KeyError(criterion_),
              criterion |-> criterion_, events |-> <<"criterion_ok">>]
        ELSE IF ~FamilyKnown(algorithm_)
        THEN [result |-> H2OValueError("model_type", algorithm_),
              criterion |-> criteria[criterion_], events |-> <<"criterion_ok">>]
        ELSE [result |-> Running,
              criterion |-> criteria[criterion_],
              events |-> <<"criterion_ok", "family_ok">>]

\* ------------------------------------------------- _best (lines 147-152)
\* line 149: positions, in the sorted model_id column, of the family's models
BestMatches(leaderboard_, pattern, criterion_, ascending) ==
    Grep(Column(Sort(leaderboard_, criterion_, ascending), str_model_id), pattern)

\* line 152: the identifier handed to h2o.get_model, read from self.leaderboard
BestLookup(self_leaderboard, matches_) == Cell(self_leaderboard, matches_[1], str_model_id)

_best(leaderboard_, self_leaderboard, pattern, criterion_, ascending) ==
    LET m == BestMatches(leaderboard_, pattern, criterion_, ascending)
    IN  IF Len(m) = 0 THEN NoModel ELSE Model(BestLookup(self_leaderboard, m))

\* get_best_model on a leaderboard that does not change during the call
get_best_model(frame, leader_category, algorithm_, criterion_arg_) ==
    LET c0 == IF criterion_arg_ = None THEN DefaultCriterion(leader_category)
              ELSE criterion_arg_
        v == Validate(frame.columns, algorithm_, c0)
    IN  IF v.result # Running THEN v.result
        ELSE _best(frame, frame, patterns[Lower(algorithm_)], v.criterion,
                   Ascending(v.criterion))

\* ------------------------------------------------------------ the inputs
\* the models the run can train: the identifier, the value of the metrics
\* where higher is better and the value of the metrics where lower is better
Trained ==
    { [model_id |-> id_GBM_1, score |-> 2, error |-> 1],
      [model_id |-> id_DRF_1, score |-> 2, error |-> 2],
      [model_id |-> id_XRT_1, score |-> 3, error |-> 3],
      [model_id |-> id_StackedEnsemble_1, score |-> 1, error |-> 1] }

\* the AutoML runs: the leader's category and the leaderboard's columns
Runs ==
    { [category |-> "Binomial", columns |-> <<str_model_id, str_auc, str_mse>>],
      [category |-> "Regression", columns |-> <<str_model_id, str_mean_residual_deviance>>],
      [category |-> "Multinomial", columns |-> <<str_model_id, str_mean_per_class_error>>],
      [category |-> "Binomial", columns |-> <<str_model_id, str_AUC>>],
      [category |-> "Ordinal", columns |-> <<str_model_id, str_mse>>] }

Algorithms ==
    { str_base_model, str_deep_learning, str_drf, str_gbm, str_GBM, str_glm,
      str_stacked_ensemble, str_xgboost, str_xrt, str_svm }

CriterionArgs == { None, str_auc, str_AUC, str_mse, str_rmse }

\* the leaderboard row of a model
RowOf(model, columns) ==
    [c \in 1..Len(columns) |->
        IF columns[c] = str_model_id THEN model.model_id
        ELSE IF Lower(columns[c]) \in higher_is_better THEN model.score
        ELSE model.error]

InsertAt(rows, p, row) ==
    [k \in 1..(Len(rows) + 1) |->
        IF k <= p THEN rows[k] ELSE IF k = p + 1 THEN row ELSE rows[k - 1]]

\* -------------------------------------------------------------- the state
VARIABLES
    leaderboard,     \* the run's leaderboard on the backend: what self.leaderboard returns now
    leader_category, \* self.leader._model_json["output"]["model_category"]
    algorithm,       \* argument of the call
    criterion_arg,   \* argument of the call, None when omitted
    pc,              \* where the call is
    model_category,  \* local, "" until read
    criterion,       \* local
    sorted_ids,      \* the model_id column of the frame line 149 sorted
    matches,         \* local of _best
    result,          \* how the call ended
    trace,           \* what the call has done so far
    changed          \* did the backend change the leaderboard during the call

vars == <<leaderboard, leader_category, algorithm, criterion_arg, pc, model_category,
          criterion, sorted_ids, matches, result, trace, changed>>

Init ==
    /\ \E run \in Runs :
          /\ leaderboard = [columns |-> run.columns, rows |-> <<>>]
          /\ leader_category = run.category
    /\ algorithm = <<>>
    /\ criterion_arg = None
    /\ pc = "idle"
    /\ model_category = ""
    /\ criterion = None
    /\ sorted_ids = <<>>
    /\ matches = <<>>
    /\ result = Running
    /\ trace = <<>>
    /\ changed = FALSE

\* the backend trains one more model and puts it on the leaderboard
RemoteInsert ==
    /\ pc # "done"
    /\ Len(leaderboard.rows) < MaxRows
    /\ \E model \in Trained, p \in 0..Len(leaderboard.rows) :
          /\ \A r \in 1..Len(leaderboard.rows) :
                Cell(leaderboard, r - 1, str_model_id) # model.model_id
          /\ leaderboard' = [leaderboard EXCEPT
                                !.rows = InsertAt(@, p, RowOf(model, leaderboard.columns))]
    /\ changed' = (pc # "idle")
    /\ UNCHANGED <<leader_category, algorithm, criterion_arg, pc, model_category,
                   criterion, sorted_ids, matches, result, trace>>

\* aml.get_best_model(algorithm, criterion)
Call ==
    /\ pc = "idle"
    /\ \E a \in Algorithms, c \in CriterionArgs :
          /\ algorithm' = a
          /\ criterion_arg' = c
          /\ criterion' = c
          /\ pc' = IF c = None THEN "leader" ELSE "validate"
    /\ UNCHANGED <<leaderboard, leader_category, model_category, sorted_ids, matches,
                   result, trace, changed>>

\* the call has returned or raised: the client holds nothing of it
Return ==
    /\ pc = "done"
    /\ pc' = "idle"
    /\ algorithm' = <<>>
    /\ criterion_arg' = None
    /\ criterion' = None
    /\ model_category' = ""
    /\ sorted_ids' = <<>>
    /\ matches' = <<>>
    /\ result' = Running
    /\ trace' = <<>>
    /\ changed' = FALSE
    /\ UNCHANGED <<leaderboard, leader_category>>

\* lines 167-174
ReadLeaderCategory ==
    /\ pc = "leader"
    /\ model_category' = leader_category
    /\ criterion' = DefaultCriterion(leader_category)
    /\ trace' = Append(trace, "leader")
    /\ pc' = "validate"
    /\ UNCHANGED <<leaderboard, leader_category, algorithm, criterion_arg, sorted_ids,
                   matches, result, changed>>

\* lines 176-189
ValidateArguments ==
    /\ pc = "validate"
    /\ LET v == Validate(leaderboard.columns, algorithm, criterion)
       IN  /\ criterion' = v.criterion
           /\ result' = v.result
           /\ trace' = Append(trace, "leaderboard") \o v.events
           /\ pc' = IF v.result = Running THEN "best" ELSE "done"
    /\ UNCHANGED <<leaderboard, leader_category, algorithm, criterion_arg, model_category,
                   sorted_ids, matches, changed>>

\* lines 191-196 and 149-151, with the model resolved before matches.nrow is looked at
SortAndGrepResolvingFirst ==
    /\ pc = "best"
    /\ LET ascending == Ascending(criterion)
           pattern == patterns[Lower(algorithm)]
           m == BestMatches(leaderboard, pattern, criterion, ascending)
       IN  /\ sorted_ids' = Column(Sort(leaderboard, criterion, ascending), str_model_id)
           /\ matches' = m
           /\ trace' = trace \o <<"leaderboard", "sort", "grep", "get_model">>
           /\ result' = IF Len(m) = 0 THEN NoModel ELSE Running
           /\ pc' = IF Len(m) = 0 THEN "done" ELSE "lookup"
    /\ UNCHANGED <<leaderboard, leader_category, algorithm, criterion_arg, model_category,
                   criterion, changed>>

\* lines 191-196 and 149-151
SortAndGrep ==
    /\ pc = "best"
    /\ LET ascending == Ascending(criterion)
           pattern == patterns[Lower(algorithm)]
           m == BestMatches(leaderboard, pattern, criterion, ascending)
       IN  /\ sorted_ids' = Column(Sort(leaderboard, criterion, ascending), str_model_id)
           /\ matches' = m
           /\ trace' = trace \o <<"leaderboard", "sort", "grep">>
           /\ result' = IF Len(m) = 0 THEN NoModel ELSE Running
           /\ pc' = IF Len(m) = 0 THEN "done" ELSE "lookup"
    /\ UNCHANGED <<leaderboard, leader_category, algorithm, criterion_arg, model_category,
                   criterion, changed>>

\* line 152
LookupAndResolve ==
    /\ pc = "lookup"
    /\ result' = Model(BestLookup(leaderboard, matches))
    /\ trace' = trace \o <<"leaderboard", "get_model">>
    /\ pc' = "done"
    /\ UNCHANGED <<leaderboard, leader_category, algorithm, criterion_arg, model_category,
                   criterion, sorted_ids, matches, changed>>

Next ==
    \/ RemoteInsert
    \/ Call
    \/ Return
    \/ ReadLeaderCategory
    \/ ValidateArguments
    \/ SortAndGrep
    \/ LookupAndResolve

Spec == Init /\ [][Next]_vars

TypeOK ==
    /\ pc \in {"idle", "leader", "validate", "best", "lookup", "done"}
    /\ Len(leaderboard.rows) <= MaxRows


\* ------------------------------------------------------------ the claims
Count(seq, e) == Cardinality({i \in 1..Len(seq) : seq[i] = e})

LowerColumns == {Lower(leaderboard.columns[i]) : i \in 1..Len(leaderboard.columns)}

ColumnNames == {leaderboard.columns[i] : i \in 1..Len(leaderboard.columns)}

EightTags ==
    { str_base_model, str_deep_learning, str_drf, str_gbm, str_glm,
      str_stacked_ensemble, str_xgboost, str_xrt }

\* the documented default criterion of a leader category
DocumentedDefault(category) ==
    CASE category = "Regression" -> str_mean_residual_deviance
      [] category = "Binomial" -> str_auc
      [] OTHER -> str_mean_per_class_error

\* the criterion the call asks for: the argument, or the documented default
Requested ==
    IF criterion_arg = None THEN DocumentedDefault(leader_category) ELSE criterion_arg

\* the family's documented prefix rule
InFamily(tag, model_id) ==
    CASE tag = str_base_model -> ~IsPrefix(pre_StackedEnsemble, model_id)
      [] tag = str_deep_learning -> IsPrefix(pre_DeepLearning, model_id)
      [] tag = str_drf -> IsPrefix(pre_DRF, model_id) \/ IsPrefix(pre_XRT, model_id)
      [] tag = str_gbm -> IsPrefix(pre_GBM, model_id)
      [] tag = str_glm -> IsPrefix(pre_GLM, model_id)
      [] tag = str_stacked_ensemble -> IsPrefix(pre_StackedEnsemble, model_id)
      [] tag = str_xgboost -> IsPrefix(pre_XGBoost, model_id)
      [] tag = str_xrt -> IsPrefix(pre_XRT, model_id)
      [] OTHER -> FALSE

\* the identifiers of a model_id column that belong to the family, top to bottom
FamilyIds(ids, tag) ==
    LET test(model_id) == InFamily(tag, model_id) IN SelectSeq(ids, test)

\* the model_id column of the frame sorted by a column, descending for auc and aucpr
SortedIds(frame, column) ==
    Column(Sort(frame, column, Lower(column) \notin {str_auc, str_aucpr}), str_model_id)

Returned == pc = "done"

\* C1: on a leaderboard that does not change during the call, with a valid
\* family and a criterion that names a column (here: letter for letter, in
\* lowercase), if some model_id is of the family then the model returned is
\* the first one of the family in the leaderboard sorted by the criterion
\* (descending for auc and aucpr).
C1_FirstOfFamilyInSortedOrder ==
    ( /\ Returned
      /\ ~changed
      /\ Lower(algorithm) \in EightTags
      /\ Requested \in ColumnNames
      /\ Requested = Lower(Requested)
      /\ Len(FamilyIds(Column(leaderboard, str_model_id), Lower(algorithm))) > 0 )
    => result = Model(FamilyIds(SortedIds(leaderboard, Requested), Lower(algorithm))[1])

\* C2: a model that is returned has an identifier of the requested family.
C2_ReturnedModelIsOfFamily ==
    (Returned /\ ~changed /\ result.kind = "model")
    => InFamily(Lower(algorithm), result.arg)

\* C3: a criterion whose lowercase form is the lowercase form of a column name
\* is resolved to that column without an error, and the call ends as the call
\* with any other casing of the same name ends.
C3_CriterionCaseInsensitive ==
    (Returned /\ ~changed /\ criterion_arg # None /\ Lower(criterion_arg) \in LowerColumns)
    => /\ result.kind # "KeyError"
       /\ \A c \in CriterionArgs \ {None} :
             Lower(c) = Lower(criterion_arg)
             => get_best_model(leaderboard, leader_category, algorithm, c) = result

\* C4: a family whose lowercase form is none of the eight tags ends the call
\* in an H2OValueError, whatever the criterion and the leaderboard.
C4_UnknownFamilyIsInvalidArgument ==
    (Returned /\ Lower(algorithm) \notin EightTags) => result.kind = "H2OValueError"

\* C5: a criterion, given or derived from the leader's category, whose
\* lowercase form is not a lowercase column name ends the call in an
\* H2OValueError that names the criterion.
C5_AbsentCriterionIsInvalidArgument ==
    (Returned /\ Lower(Requested) \notin LowerColumns)
    => result = H2OValueError("Criterion", Requested)

C5_Witness ==
    /\ Returned
    /\ criterion_arg = None
    /\ Lower(Requested) \notin LowerColumns
    /\ Len(leaderboard.rows) > 0
    /\ result.kind = "H2OValueError"

\* C6: with a valid family and a criterion that resolves to a column, a
\* leaderboard with no model_id of the family (an empty one too) gives None.
C6_NoMatchGivesNone ==
    ( /\ Returned
      /\ ~changed
      /\ Lower(algorithm) \in EightTags
      /\ Lower(Requested) \in LowerColumns
      /\ Len(FamilyIds(Column(leaderboard, str_model_id), Lower(algorithm))) = 0 )
    => result = NoModel

\* C7: validation, sort, match and lookup of one call use one snapshot of the
\* leaderboard: the identifier the call resolves is the first one of the
\* family in the snapshot that was sorted, whether or not the backend changed
\* the leaderboard during the call.
C7_OneSnapshot ==
    (Returned /\ result.kind = "model")
    => result.arg = FamilyIds(sorted_ids, Lower(algorithm))[1]

\* C8: with the criterion omitted, the criterion is the documented default of
\* the leader's category and the sort is descending for Binomial and ascending
\* otherwise; with the criterion given, the category is not read and does not
\* change the result.
C8_DefaultCriterion ==
    /\ (criterion_arg = None /\ pc = "validate")
       => (model_category = leader_category /\ criterion = DocumentedDefault(leader_category))
    /\ (criterion_arg = None /\ pc \in {"best", "lookup", "done"})
       => Lower(criterion) = DocumentedDefault(leader_category)
    /\ (criterion_arg = None /\ ~changed /\ Count(trace, "sort") = 1)
       => sorted_ids =
            Column(Sort(leaderboard, criterion, leader_category # "Binomial"), str_model_id)
    /\ (criterion_arg # None)
       => (model_category = "" /\ Count(trace, "leader") = 0)
    /\ (criterion_arg # None /\ Returned /\ ~changed)
       => \A category \in {"Regression", "Binomial", "Multinomial", "Ordinal"} :
             get_best_model(leaderboard, category, algorithm, criterion_arg) = result

C8_Witness ==
    /\ Returned
    /\ criterion_arg = None
    /\ leader_category = "Binomial"
    /\ result.kind = "model"
    /\ Len(sorted_ids) = 3
    /\ sorted_ids # Column(leaderboard, str_model_id)

\* two calls end alike: the same model, None, or an error of the same kind
SameOutcome(r1, r2) ==
    /\ r1.kind = r2.kind
    /\ r1.about = r2.about
    /\ r1.kind = "model" => r1.arg = r2.arg

\* C9: two calls whose families differ only in letter case end alike.
C9_FamilyCaseInsensitive ==
    (Returned /\ ~changed)
    => \A a \in Algorithms :
          Lower(a) = Lower(algorithm)
          => SameOutcome(get_best_model(leaderboard, leader_category, a, criterion_arg),
                         result)

C9_Witness ==
    /\ Returned
    /\ ~changed
    /\ algorithm = str_GBM
    /\ result = Model(id_GBM_1)

\* C10: h2o.get_model is called at most once, and only after the criterion
\* check and the family check passed and a match was found; a call that ends
\* in an H2OValueError or in None has not called it; when the criterion and
\* the family are both invalid the error is the criterion's.
C10_ResolveLast ==
    /\ Count(trace, "get_model") <= 1
    /\ \A i \in 1..Len(trace) :
          trace[i] = "get_model"
          => /\ \E j \in 1..(i - 1) : trace[j] = "criterion_ok"
             /\ \E j \in 1..(i - 1) : trace[j] = "family_ok"
             /\ \E j \in 1..(i - 1) : trace[j] = "grep"
             /\ Len(matches) > 0
    /\ (Returned /\ result.kind \in {"H2OValueError", "None"})
       => Count(trace, "get_model") = 0
    /\ (Returned /\ Lower(Requested) \notin LowerColumns /\ Lower(algorithm) \notin EightTags)
       => result = H2OValueError("Criterion", Requested)

C10_Witness ==
    /\ Returned
    /\ result.kind = "model"
    /\ trace[Len(trace)] = "get_model"
    /\ Count(trace, "criterion_ok") = 1

====
